---- MODULE Spec2Model ----
(***************************************************************************)
(* The streaming session controller of agent_sales: the useChat hook       *)
(* (hooks/use-chat) driving RealChatAPI.sendMessageStream (lib/api).       *)
(*                                                                         *)
(* One action per handler run between two suspension points (await) of the *)
(* single JavaScript thread.  React state setters are applied in program   *)
(* order; the functional setMessages updates of one synchronous block are  *)
(* applied together (one render).  Message timestamps (Date.now()) are not *)
(* read by any handler and are left out of the message records.            *)
(*                                                                         *)
(* Text is a sequence of tokens.  A token is an atomic piece of text that  *)
(* contains neither the literal {'path': nor } nor a line break, except    *)
(* for the three tokens POpen, PClose and NL which are exactly those.      *)
(***************************************************************************)
EXTENDS Integers, Sequences, FiniteSets, TLC

\* ------------------------------------------------------------------ bounds
MaxCalls      == 2   \* send / new session / load session calls of one behaviour
MaxChunks     == 2   \* chunks decoded by all streams of one behaviour
MaxTurnChunks == 4   \* chunks decoded by the stream of the single-turn specification
MaxLines      == 2   \* terminated lines of a response body
MaxUploads    == 2   \* uploadFile calls of one behaviour
MaxSends      == 2   \* handleSend calls (Enter or the send button) of one behaviour

\* --------------------------------------------------------------- constants
None   == "<null>"                       \* JavaScript null
POpen  == "{'path':"                     \* literal opening of the tool pattern
PClose == "}"                            \* literal closing of the tool pattern
NL     == "\n"                           \* line break, which '.' does not match

Msg(s, c) == [sender |-> s, content |-> c]

ContentChunk(c) == [type |-> "content", content |-> c, error |-> None]
DoneChunk       == [type |-> "done", content |-> <<>>, error |-> None]
ErrorChunk(m)   == [type |-> "error", content |-> <<>>, error |-> m]

\* ------------------------------------------------------ environment inputs
SessionIds == {"s1", "s2"}
\* the id createNewChat answers with: the session whose stored history is empty
NewSessionId == "s1"
UserInputs == {<<"hello">>}
ErrorTexts == {"boom"}
\* error texts of the single-turn specification: "" is an error event whose
\* message is empty or missing
TurnErrorTexts == {"boom", ""}
\* what getMessagesBySession answers for each session
StoredHistory(sid) ==
    IF sid = "s1" THEN <<>> ELSE <<Msg("human", <<"old">>), Msg("ai", <<"reply">>)>>
\* the chunks a stream of the controller specification may decode
Chunks == {ContentChunk(<<"Hi">>), DoneChunk} \cup {ErrorChunk(m) : m \in ErrorTexts}

\* the inputs of the single-turn specification
TurnInputs   == {<<"hello">>, <<"run report">>}
Payload      == <<POpen, " '/tmp/out.csv', 'message': 'done'", PClose>>
\* the payload as the server may cut it into two content events
PayloadHead  == <<POpen, " '/tmp/out.csv',">>
PayloadTail  == <<" 'message': 'done'", PClose>>
TurnContents == {<<>>, <<"Hi">>, <<" there">>, <<"Running...">>, <<" finished">>,
                 Payload, <<"see ", POpen, " 'a.csv'", PClose, " and ", PClose>>,
                 <<POpen, NL, PClose>>}
TurnChunks   == {ContentChunk(c) : c \in TurnContents} \cup {DoneChunk}
                    \cup {ErrorChunk(m) : m \in TurnErrorTexts}
\* the chunks of a turn whose server may cut the payload in two
SplitChunks  == {ContentChunk(c) : c \in {<<"Running...">>, Payload, PayloadHead,
                                          PayloadTail}}
                    \cup {DoneChunk, ErrorChunk("boom")}

\* ------------------------------------------------------------------- state
VARIABLES
    currentSessionId,   \* useState<string | null>
    messages,           \* useState<ChatMessage[]>
    isLoading,          \* useState(false)
    error,              \* useState<string | null>
    activeStreamRef,    \* useRef: index into handles, 0 is null
    handles,            \* every streamTracker created, with its stream's position
    requests,           \* createNewChat / getMessagesBySession requests in flight
    nCalls,             \* calls of the user counted so far
    \* one run of RealChatAPI.sendMessageStream, taken alone (read loop)
    wire,               \* the bytes of the response body
    pos,                \* how many of them reader.read() has handed over
    held,               \* bytes the TextDecoder holds back (incomplete character)
    buffer,             \* let buffer
    emitted,            \* the chunks handed to onChunk, in order
    processed,          \* the lines the for loop has visited, with their chunks
    readerPc,           \* "idle", "reading", "done" or "failed"
    splitLine,          \* a line was completed by a later read than it began in
    splitChar,          \* a character was completed by a later read than it began in
    \* file upload
    uploadProgress,     \* useState<{fileName, status} | null>
    uploads,            \* chatAPI.uploadFile requests in flight, by file name
    timers,             \* setTimeout(() => setUploadProgress(null), 3000) still to fire
    nUploads,           \* uploadFile calls counted so far
    \* the MessageInput component
    message,            \* useState(""): the text typed
    selectedFile,       \* useState<File | null>: the name of the file chosen
    awaiting,           \* handleSend runs waiting in await onFileUpload, with the
                        \* message of the render they were called in
    nSends              \* handleSend calls counted so far

hookVars == <<currentSessionId, messages, isLoading, error, activeStreamRef,
              handles, requests, nCalls>>

readerVars == <<wire, pos, held, buffer, emitted, processed, readerPc,
                splitLine, splitChar>>

uploadVars == <<uploadProgress, uploads, timers, nUploads>>

Progress(fileName, status) == [fileName |-> fileName, status |-> status]

\* the null of uploadProgress
NoProgress == Progress(None, None)

inputVars == <<message, selectedFile, awaiting, nSends>>

\* what the actions of the streaming turn never touch
sideVars == <<readerVars, uploadVars, inputVars>>

vars == <<hookVars, readerVars, uploadVars, inputVars>>

\* nothing typed, no file chosen
InputIdle ==
    /\ message = <<>>
    /\ selectedFile = None
    /\ awaiting = <<>>
    /\ nSends = 0

\* no file has been uploaded
UploadIdle ==
    /\ uploadProgress = NoProgress
    /\ uploads = <<>>
    /\ timers = 0
    /\ nUploads = 0

\* no response body is being read
ReaderIdle ==
    /\ wire = <<>>
    /\ pos = 0
    /\ held = <<>>
    /\ buffer = <<>>
    /\ emitted = <<>>
    /\ processed = <<>>
    /\ readerPc = "idle"
    /\ splitLine = FALSE
    /\ splitChar = FALSE

\* ---------------------------------------------------------- pure functions
Last(s) == s[Len(s)]

\* faulty variant: only the trailing message is removed
SliceOffOne(prev) == IF Len(prev) <= 1 THEN <<>> ELSE SubSeq(prev, 1, Len(prev) - 1)

\* Array.prototype.slice(0, -2)
SliceOffTwo(prev) == IF Len(prev) <= 2 THEN <<>> ELSE SubSeq(prev, 1, Len(prev) - 2)

\* /\{'path':.*?\}/ started at position i: the lazy .*? stops at the first }
\* and cannot cross a line break.
CloseOf(text, i) ==
    {j \in (i + 1)..Len(text) :
        /\ text[j] = PClose
        /\ \A k \in (i + 1)..(j - 1) : text[k] # PClose /\ text[k] # NL}

MatchStarts(text) ==
    {i \in 1..Len(text) : text[i] = POpen /\ CloseOf(text, i) # {}}

toolResultPatternTest(content) == MatchStarts(content) # {}

\* content.match(toolResultPattern)?.[0] : the leftmost match
toolResultPatternMatch(content) ==
    LET i == CHOOSE a \in MatchStarts(content) :
                 \A b \in MatchStarts(content) : a <= b
        j == CHOOSE a \in CloseOf(content, i) : TRUE
    IN  SubSeq(content, i, j)

\* faulty variant: the trailing message's text is overwritten, not extended
ApplyContentOverwrite(prev, content) ==
    IF Len(prev) > 0 /\ Last(prev).sender = "ai"
    THEN IF toolResultPatternTest(content)
         THEN prev \o <<Msg("tool", toolResultPatternMatch(content)), Msg("ai", <<>>)>>
         ELSE [prev EXCEPT ![Len(prev)].content = content]
    ELSE prev

\* faulty variant: the tool message takes the whole chunk, not the match
ApplyContentWholeChunk(prev, content) ==
    IF Len(prev) > 0 /\ Last(prev).sender = "ai"
    THEN IF toolResultPatternTest(content)
         THEN prev \o <<Msg("tool", content), Msg("ai", <<>>)>>
         ELSE [prev EXCEPT ![Len(prev)].content = @ \o content]
    ELSE prev

\* faulty variant: text keeps going to the ai message the turn started with
ApplyContentBeforeTool(prev, content) ==
    IF Len(prev) > 0 /\ Last(prev).sender = "ai"
    THEN IF toolResultPatternTest(content)
         THEN prev \o <<Msg("tool", toolResultPatternMatch(content)), Msg("ai", <<>>)>>
         ELSE IF Len(prev) >= 3 /\ prev[Len(prev) - 1].sender = "tool"
              THEN [prev EXCEPT ![Len(prev) - 2].content = @ \o content]
              ELSE [prev EXCEPT ![Len(prev)].content = @ \o content]
    ELSE prev

\* faulty variant: the tool message takes the place of the trailing ai message
ApplyContentReplaceTrailing(prev, content) ==
    IF Len(prev) > 0 /\ Last(prev).sender = "ai"
    THEN IF toolResultPatternTest(content)
         THEN [prev EXCEPT ![Len(prev)] = Msg("tool", toolResultPatternMatch(content))]
                  \o <<Msg("ai", <<>>)>>
         ELSE [prev EXCEPT ![Len(prev)].content = @ \o content]
    ELSE prev

\* the updater passed to setMessages by onChunk for a content chunk
ApplyContent(prev, content) ==
    IF Len(prev) > 0 /\ Last(prev).sender = "ai"
    THEN IF toolResultPatternTest(content)
         THEN prev \o <<Msg("tool", toolResultPatternMatch(content)), Msg("ai", <<>>)>>
         ELSE [prev EXCEPT ![Len(prev)].content = @ \o content]
    ELSE prev

\* loadSession's response.message.map(...)
mappedMessages(hist) ==
    [k \in 1..Len(hist) |->
        Msg(IF hist[k].sender = "" THEN "ai" ELSE hist[k].sender, hist[k].content)]

\* faulty variant: the aborted flag is never consulted
AdmittedAlways(h) == TRUE

\* the check at the top of onChunk and in catch / finally
Admitted(h) == ~handles[h].aborted

\* faulty variant: the reference is dropped but the flag is left false
AbortActiveRefOnly(by) ==
    IF activeStreamRef = 0 THEN handles
    ELSE [handles EXCEPT ![activeStreamRef].abortedBy = by,
                         ![activeStreamRef].abortedAt = Len(handles[activeStreamRef].log)]

\* "Abort any active stream" of loadSession and clearSession
AbortActive(by) ==
    IF activeStreamRef = 0 THEN handles
    ELSE [handles EXCEPT ![activeStreamRef].aborted = TRUE,
                         ![activeStreamRef].abortedBy = by,
                         ![activeStreamRef].abortedAt = Len(handles[activeStreamRef].log)]

\* abortedBy and abortedAt record which handler set aborted and how many chunks
\* the stream had decoded by then; log is the chunks handed to onChunk so far;
\* createdOver records that handleNewSession's createNewSession has succeeded
\* since the stream was started
NewHandle(sid, text) ==
    [sessionId |-> sid, aborted |-> FALSE, pc |-> "fetch", log |-> <<>>,
     userInput |-> text, abortedBy |-> None, abortedAt |-> 0, createdOver |-> FALSE]

\* the streams that exist when createNewChat answers: createNewSession aborts
\* none of them
CreatedOver == [h \in 1..Len(handles) |-> [handles[h] EXCEPT !.createdOver = TRUE]]

\* -------------------------------------------------------------------- Init
Init ==
    /\ currentSessionId = None
    /\ messages = <<>>
    /\ isLoading = FALSE
    /\ error = None
    /\ activeStreamRef = 0
    /\ handles = <<>>
    /\ requests = <<>>
    /\ nCalls = 0
    /\ ReaderIdle
    /\ UploadIdle
    /\ InputIdle

\* ----------------------------------------------------------------- actions
\* the synchronous part of useChat.sendMessageStream(userInput, sessionId?),
\* applied to the state cur/msgs/hs/act the caller leaves behind
BeginStream(text, target, msgs, hs, act) ==
    /\ handles' = Append(
            IF act = 0 THEN hs
            ELSE [hs EXCEPT ![act].aborted = TRUE,
                            ![act].abortedBy = "begin",
                            ![act].abortedAt = Len(hs[act].log)],
            NewHandle(target, text))
    /\ activeStreamRef' = Len(hs) + 1
    /\ error' = None
    /\ isLoading' = TRUE
    /\ messages' = msgs \o <<Msg("human", text), Msg("ai", <<>>)>>

sendMessageStream(text, sessionId) ==
    LET targetSessionId == IF sessionId # None THEN sessionId ELSE currentSessionId IN
    /\ nCalls < MaxCalls
    /\ targetSessionId # None
    /\ BeginStream(text, targetSessionId, messages, handles, activeStreamRef)
    /\ currentSessionId' = targetSessionId
    /\ nCalls' = nCalls + 1
    /\ UNCHANGED requests

RECURSIVE Decoded(_)
\* the number of onChunk calls made so far by the first n streams
Decoded(n) == IF n = 0 THEN 0 ELSE Len(handles[n].log) + Decoded(n - 1)

\* fetch resolved with an OK response that has a body
FetchOk(h) ==
    /\ handles[h].pc = "fetch"
    /\ handles' = [handles EXCEPT ![h].pc = "reading"]
    /\ UNCHANGED <<currentSessionId, messages, isLoading, error, activeStreamRef, requests, nCalls>>

\* faulty variant: the text of the error event is shown as it came
errorTextRaw(chunk) == chunk.error

\* chunk.error || "Stream error occurred"
errorText(chunk) == IF chunk.error = "" THEN "Stream error occurred" ELSE chunk.error

\* the callback handed to chatAPI.sendMessageStream
onChunk(h, chunk) ==
    /\ handles[h].pc = "reading"
    /\ handles' = [handles EXCEPT ![h].log = Append(@, chunk)]
    /\ IF ~Admitted(h)
       THEN UNCHANGED <<messages, isLoading, error, activeStreamRef>>
       ELSE CASE chunk.type = "content" ->
                   /\ messages' = IF chunk.content # <<>>
                                  THEN ApplyContent(messages, chunk.content)
                                  ELSE messages
                   /\ UNCHANGED <<isLoading, error, activeStreamRef>>
              [] chunk.type = "done" ->
                   /\ isLoading' = FALSE
                   /\ activeStreamRef' = IF activeStreamRef = h THEN 0 ELSE activeStreamRef
                   /\ UNCHANGED <<messages, error>>
              [] chunk.type = "error" ->
                   /\ error' = errorText(chunk)
                   /\ isLoading' = FALSE
                   /\ UNCHANGED <<messages, activeStreamRef>>
    /\ UNCHANGED <<currentSessionId, requests, nCalls>>

\* faulty variant: a connection that closes is handled as a transport failure
ReaderDoneAsFailure(h) ==
    /\ handles[h].pc = "reading"
    /\ handles' = [handles EXCEPT ![h].pc = "closed", ![h].log = Append(@, DoneChunk)]
    /\ IF ~Admitted(h)
       THEN UNCHANGED <<messages, isLoading, error>>
       ELSE /\ error' = "Failed to send message"
            /\ messages' = SliceOffTwo(messages)
            /\ isLoading' = FALSE
    /\ UNCHANGED <<currentSessionId, activeStreamRef, requests, nCalls>>

\* faulty variant: the close of the connection is not passed on to the hook
ReaderDoneUnnoticed(h) ==
    /\ handles[h].pc = "reading"
    /\ handles' = [handles EXCEPT ![h].pc = "closed", ![h].log = Append(@, DoneChunk)]
    /\ UNCHANGED <<currentSessionId, messages, isLoading, error, activeStreamRef,
                   requests, nCalls>>

\* reader.read() reports done: onChunk({type: "done"}), return, then the finally
\* block of useChat.sendMessageStream
ReaderDone(h) ==
    /\ handles[h].pc = "reading"
    /\ handles' = [handles EXCEPT ![h].pc = "closed", ![h].log = Append(@, DoneChunk)]
    /\ IF ~Admitted(h)
       THEN UNCHANGED <<isLoading, activeStreamRef>>
       ELSE /\ isLoading' = FALSE
            /\ activeStreamRef' = IF activeStreamRef = h THEN 0 ELSE activeStreamRef
    /\ UNCHANGED <<currentSessionId, messages, error, requests, nCalls>>

\* faulty variant: the catch block does not look at the aborted flag
StreamFailUnchecked(h, msg) ==
    /\ handles[h].pc \in {"fetch", "reading"}
    /\ handles' = [handles EXCEPT ![h].pc = "failed"]
    /\ error' = msg
    /\ messages' = SliceOffTwo(messages)
    /\ isLoading' = FALSE
    /\ UNCHANGED <<currentSessionId, activeStreamRef, requests, nCalls>>

\* fetch rejects, the status is not OK, the body is missing or reader.read()
\* rejects: the catch and finally blocks of useChat.sendMessageStream
StreamFail(h, msg) ==
    /\ handles[h].pc \in {"fetch", "reading"}
    /\ handles' = [handles EXCEPT ![h].pc = "failed"]
    /\ IF ~Admitted(h)
       THEN UNCHANGED <<messages, isLoading, error>>
       ELSE /\ error' = msg
            /\ messages' = SliceOffTwo(messages)
            /\ isLoading' = FALSE
    /\ UNCHANGED <<currentSessionId, activeStreamRef, requests, nCalls>>

\* a request of createNewSession / loadSession: victim is the handle loadSession
\* aborted, userInput the text sendMessageWithAutoSession waits to send;
\* overtakenBy records the session of a loadSession called later whose fetch
\* was answered earlier
Request(kind, sid, victim, text) ==
    [kind |-> kind, sessionId |-> sid, victim |-> victim, userInput |-> text,
     overtakenBy |-> None]

Remove(seq, i) == SubSeq(seq, 1, i - 1) \o SubSeq(seq, i + 1, Len(seq))

\* createNewSession up to its await; text is the input sendMessageWithAutoSession
\* is waiting to send, <<>> when the caller is handleNewSession
createNewSession(text) ==
    /\ nCalls < MaxCalls
    /\ nCalls' = nCalls + 1
    /\ error' = None
    /\ isLoading' = TRUE
    /\ requests' = Append(requests, Request("create", None, 0, text))
    /\ UNCHANGED <<currentSessionId, messages, activeStreamRef, handles>>

\* useChat.sendMessageWithAutoSession(userInput, true)
sendMessageWithAutoSession(text) ==
    IF currentSessionId = None
    THEN createNewSession(text)
    ELSE sendMessageStream(text, None)

\* faulty variant: the stream is started for the session id of the render that
\* made the call, not for the id createNewChat answered with
createNewSessionOkStale(i, newSessionId) ==
    /\ requests[i].kind = "create"
    /\ requests' = Remove(requests, i)
    /\ currentSessionId' = newSessionId
    /\ IF requests[i].userInput = <<>>
       THEN /\ messages' = <<>>
            /\ isLoading' = FALSE
            /\ handles' = CreatedOver
            /\ UNCHANGED <<error, activeStreamRef>>
       ELSE BeginStream(requests[i].userInput, currentSessionId, <<>>, handles,
                        activeStreamRef)
    /\ UNCHANGED nCalls

\* createNewChat resolved: the rest of createNewSession, then the caller's
\* continuation sendMessageStream(userInput, newSessionId)
createNewSessionOk(i, newSessionId) ==
    /\ requests[i].kind = "create"
    /\ requests' = Remove(requests, i)
    /\ currentSessionId' = newSessionId
    /\ IF requests[i].userInput = <<>>
       THEN /\ messages' = <<>>
            /\ isLoading' = FALSE
            /\ handles' = CreatedOver
            /\ UNCHANGED <<error, activeStreamRef>>
       ELSE BeginStream(requests[i].userInput, newSessionId, <<>>, handles, activeStreamRef)
    /\ UNCHANGED nCalls

\* createNewChat rejected: catch and finally of createNewSession
createNewSessionFail(i, msg) ==
    /\ requests[i].kind = "create"
    /\ requests' = Remove(requests, i)
    /\ error' = msg
    /\ isLoading' = FALSE
    /\ UNCHANGED <<currentSessionId, messages, activeStreamRef, handles, nCalls>>

\* loadSession up to its await
loadSession(sessionId) ==
    /\ nCalls < MaxCalls
    /\ nCalls' = nCalls + 1
    /\ handles' = AbortActive("load")
    /\ activeStreamRef' = 0
    /\ error' = None
    /\ isLoading' = TRUE
    /\ requests' = Append(requests, Request("load", sessionId, activeStreamRef, <<>>))
    /\ UNCHANGED <<currentSessionId, messages>>

\* the requests in flight when the fetch of request i is answered: the
\* loadSession calls made before it and still waiting are marked
Overtaken(i) ==
    [j \in 1..Len(requests) |->
        IF j < i /\ requests[j].kind = "load"
        THEN [requests[j] EXCEPT !.overtakenBy = requests[i].sessionId]
        ELSE requests[j]]

\* getMessagesBySession resolved: the rest of loadSession
loadSessionOk(i) ==
    /\ requests[i].kind = "load"
    /\ requests' = Remove(Overtaken(i), i)
    /\ currentSessionId' = requests[i].sessionId
    /\ messages' = mappedMessages(StoredHistory(requests[i].sessionId))
    /\ isLoading' = FALSE
    /\ handles' = IF requests[i].victim = 0 THEN handles
                  ELSE [handles EXCEPT ![requests[i].victim].abortedBy = "loaded"]
    /\ UNCHANGED <<error, activeStreamRef, nCalls>>

\* faulty variant: the session id is switched before the history is fetched
loadSessionFailSwitched(i, msg) ==
    /\ requests[i].kind = "load"
    /\ requests' = Remove(requests, i)
    /\ currentSessionId' = requests[i].sessionId
    /\ error' = msg
    /\ isLoading' = FALSE
    /\ UNCHANGED <<messages, activeStreamRef, handles, nCalls>>

\* getMessagesBySession rejected: catch and finally of loadSession
loadSessionFail(i, msg) ==
    /\ requests[i].kind = "load"
    /\ requests' = Remove(requests, i)
    /\ error' = msg
    /\ isLoading' = FALSE
    /\ UNCHANGED <<currentSessionId, messages, activeStreamRef, handles, nCalls>>

\* faulty variant: the reference is dropped and the stream is left running
clearSessionNoAbort ==
    /\ activeStreamRef' = 0
    /\ currentSessionId' = None
    /\ messages' = <<>>
    /\ error' = None
    /\ uploadProgress' = NoProgress
    /\ UNCHANGED <<handles, isLoading, requests, nCalls>>

clearSession ==
    /\ handles' = AbortActive("clear")
    /\ activeStreamRef' = 0
    /\ currentSessionId' = None
    /\ messages' = <<>>
    /\ error' = None
    /\ uploadProgress' = NoProgress
    /\ UNCHANGED <<isLoading, requests, nCalls>>

clearError ==
    /\ error' = None
    /\ UNCHANGED <<currentSessionId, messages, isLoading, activeStreamRef, handles,
                   requests, nCalls>>

\* ------------------------------------------------------------ specification
HandleIds  == 1..Len(handles)
RequestIds == 1..Len(requests)

Next ==
    \/ \E t \in UserInputs : sendMessageWithAutoSession(t) /\ UNCHANGED sideVars
    \/ \E h \in HandleIds : FetchOk(h) /\ UNCHANGED sideVars
    \/ \E h \in HandleIds, c \in Chunks :
          Decoded(Len(handles)) < MaxChunks /\ onChunk(h, c) /\ UNCHANGED sideVars
    \/ \E h \in HandleIds : ReaderDone(h) /\ UNCHANGED sideVars
    \/ \E h \in HandleIds : StreamFail(h, "API Error 500") /\ UNCHANGED sideVars
    \/ createNewSession(<<>>) /\ UNCHANGED sideVars
    \/ \E i \in RequestIds : createNewSessionOk(i, NewSessionId) /\ UNCHANGED sideVars
    \/ \E i \in RequestIds : createNewSessionFail(i, "create failed") /\ UNCHANGED sideVars
    \/ \E sid \in SessionIds : loadSession(sid) /\ UNCHANGED sideVars
    \/ \E i \in RequestIds : loadSessionOk(i) /\ UNCHANGED sideVars
    \/ \E i \in RequestIds : loadSessionFail(i, "load failed") /\ UNCHANGED sideVars
    \/ clearSession /\ UNCHANGED <<readerVars, uploads, timers, nUploads, inputVars>>
    \/ clearError /\ UNCHANGED sideVars

Spec == Init /\ [][Next]_vars

\* One streaming turn on a loaded session, with nothing else going on: the
\* state loadSession leaves behind, then one sendMessageWithAutoSession and the
\* events of its stream.
InitTurn ==
    /\ currentSessionId \in SessionIds
    /\ messages = mappedMessages(StoredHistory(currentSessionId))
    /\ isLoading = FALSE
    /\ error = None
    /\ activeStreamRef = 0
    /\ handles = <<>>
    /\ requests = <<>>
    /\ nCalls = 1
    /\ ReaderIdle
    /\ UploadIdle
    /\ InputIdle

NextTurn ==
    \/ \E t \in TurnInputs : handles = <<>> /\ sendMessageWithAutoSession(t) /\ UNCHANGED sideVars
    \/ \E h \in HandleIds : FetchOk(h) /\ UNCHANGED sideVars
    \/ \E h \in HandleIds, c \in TurnChunks :
          Len(handles[h].log) < MaxTurnChunks /\ onChunk(h, c) /\ UNCHANGED sideVars
    \/ \E h \in HandleIds : ReaderDone(h) /\ UNCHANGED sideVars
    \/ \E h \in HandleIds : StreamFail(h, "API Error 500") /\ UNCHANGED sideVars

SpecTurn == InitTurn /\ [][NextTurn]_vars

\* The same single turn against a server that may cut a tool payload into two
\* content events.
NextSplit ==
    \/ \E t \in TurnInputs : handles = <<>> /\ sendMessageWithAutoSession(t) /\ UNCHANGED sideVars
    \/ \E h \in HandleIds : FetchOk(h) /\ UNCHANGED sideVars
    \/ \E h \in HandleIds, c \in SplitChunks :
          Len(handles[h].log) < MaxTurnChunks /\ onChunk(h, c) /\ UNCHANGED sideVars
    \/ \E h \in HandleIds : ReaderDone(h) /\ UNCHANGED sideVars
    \/ \E h \in HandleIds : StreamFail(h, "API Error 500") /\ UNCHANGED sideVars

SpecSplit == InitTurn /\ [][NextSplit]_vars

\* The connection of the turn ends sooner or later: the fetch is answered or
\* rejected, and a body that is being read is closed or breaks.
ConnectionMoves ==
    /\ \E h \in HandleIds :
          FetchOk(h) \/ ReaderDone(h) \/ StreamFail(h, "API Error 500")
    /\ UNCHANGED sideVars

SpecLive == SpecSplit /\ WF_vars(ConnectionMoves)

\* ------------------------------------------------------------ file upload
UploadFiles == {"a.csv", "b.csv"}

\* the message of the Error chatAPI.uploadFile rejects with
UploadErrorText == "Upload failed: 500"

\* useChat.uploadFile(file) up to its await
uploadFile(file) ==
    /\ nUploads < MaxUploads
    /\ nUploads' = nUploads + 1
    /\ error' = None
    /\ uploadProgress' = Progress(file, "uploading")
    /\ uploads' = Append(uploads, file)
    /\ UNCHANGED <<currentSessionId, messages, isLoading, activeStreamRef, handles,
                   requests, nCalls, timers>>

\* chatAPI.uploadFile resolved: the rest of the try block
uploadFileOk(i) ==
    /\ uploads' = Remove(uploads, i)
    /\ uploadProgress' = Progress(uploads[i], "success")
    /\ timers' = timers + 1
    /\ UNCHANGED <<hookVars, nUploads>>

\* chatAPI.uploadFile rejected: the catch block
uploadFileFail(i, msg) ==
    /\ uploads' = Remove(uploads, i)
    /\ error' = msg
    /\ uploadProgress' = Progress(uploads[i], "error")
    /\ timers' = timers + 1
    /\ UNCHANGED <<currentSessionId, messages, isLoading, activeStreamRef, handles,
                   requests, nCalls, nUploads>>

\* a timer armed by uploadFile fires: setUploadProgress(null)
uploadTimer ==
    /\ timers > 0
    /\ timers' = timers - 1
    /\ uploadProgress' = NoProgress
    /\ UNCHANGED <<hookVars, uploads, nUploads>>

UploadIds == 1..Len(uploads)

\* One streaming turn on a loaded session while files are uploaded.
NextUpload ==
    \/ \E t \in UserInputs : handles = <<>> /\ sendMessageWithAutoSession(t) /\ UNCHANGED sideVars
    \/ \E h \in HandleIds : FetchOk(h) /\ UNCHANGED sideVars
    \/ \E h \in HandleIds, c \in Chunks :
          Decoded(Len(handles)) < MaxChunks /\ onChunk(h, c) /\ UNCHANGED sideVars
    \/ \E h \in HandleIds : ReaderDone(h) /\ UNCHANGED sideVars
    \/ \E h \in HandleIds : StreamFail(h, "API Error 500") /\ UNCHANGED sideVars
    \/ \E f \in UploadFiles : uploadFile(f) /\ UNCHANGED <<readerVars, inputVars>>
    \/ \E i \in UploadIds : uploadFileOk(i) /\ UNCHANGED <<readerVars, inputVars>>
    \/ \E i \in UploadIds : uploadFileFail(i, UploadErrorText) /\ UNCHANGED <<readerVars, inputVars>>
    \/ uploadTimer /\ UNCHANGED <<readerVars, inputVars>>

SpecUpload == InitTurn /\ [][NextUpload]_vars

\* ------------------------------------- RealChatAPI.sendMessageStream alone
\* The response body is a sequence of byte tokens.  A byte token is one byte
\* (the line break, a blank, a carriage return, the two bytes of U+00E9) or an
\* atomic run of ASCII bytes, which decodes to itself.
DataTag        == "data:"
SP             == " "
CR             == "\r"
Lead           == "0xC3"                 \* first byte of U+00E9 in UTF-8
Cont           == "0xA9"                 \* second byte of U+00E9 in UTF-8
EAcute         == "U+00E9"
Replacement    == "U+FFFD"               \* what a malformed byte decodes to
OpenContent    == "{\"type\":\"content\",\"content\":\""
OpenToolCall   == "{\"type\":\"tool_call\",\"tool\":\""
OpenToolResult == "{\"type\":\"tool_result\",\"content\":\""
CloseStr       == "\"}"
EndEvent       == "{\"type\":\"end\"}"
PingEvent      == "{\"type\":\"ping\"}"
ErrorEventBoom == "{\"type\":\"error\",\"message\":\"boom\"}"

WhiteSpace == {SP, CR}
\* tokens that cannot stand inside a JSON string literal
Structural == {OpenContent, OpenToolCall, OpenToolResult, CloseStr, EndEvent,
               PingEvent, ErrorEventBoom, CR, NL}

RECURSIVE utf8(_)
\* UTF-8 decoding of complete input: malformed bytes become U+FFFD
utf8(bytes) ==
    IF bytes = <<>> THEN <<>>
    ELSE IF Head(bytes) = Lead
         THEN IF Len(bytes) >= 2 /\ bytes[2] = Cont
              THEN <<EAcute>> \o utf8(SubSeq(bytes, 3, Len(bytes)))
              ELSE <<Replacement>> \o utf8(Tail(bytes))
         ELSE IF Head(bytes) = Cont
              THEN <<Replacement>> \o utf8(Tail(bytes))
              ELSE <<Head(bytes)>> \o utf8(Tail(bytes))

\* faulty variant: every chunk is decoded on its own, nothing is held back
TextDecoderDecodeNoStream(heldBytes, value) == [text |-> utf8(value), held |-> <<>>]

\* decoder.decode(value, { stream: true }): a trailing incomplete character is
\* held back for the next call
TextDecoderDecode(heldBytes, value) ==
    LET bytes == heldBytes \o value
        keep  == IF bytes # <<>> /\ Last(bytes) = Lead THEN 1 ELSE 0
    IN  [text |-> utf8(SubSeq(bytes, 1, Len(bytes) - keep)),
         held |-> SubSeq(bytes, Len(bytes) - keep + 1, Len(bytes))]

RECURSIVE split(_)
\* String.prototype.split("\n")
split(text) ==
    LET nl == {i \in 1..Len(text) : text[i] = NL}
    IN  IF nl = {} THEN <<text>>
        ELSE LET i == CHOOSE a \in nl : \A b \in nl : a <= b
             IN  <<SubSeq(text, 1, i - 1)>> \o split(SubSeq(text, i + 1, Len(text)))

RECURSIVE trimStart(_)
trimStart(s) == IF s # <<>> /\ Head(s) \in WhiteSpace THEN trimStart(Tail(s)) ELSE s

RECURSIVE trimEnd(_)
trimEnd(s) ==
    IF s # <<>> /\ Last(s) \in WhiteSpace THEN trimEnd(SubSeq(s, 1, Len(s) - 1)) ELSE s

\* String.prototype.trim()
trim(s) == trimEnd(trimStart(s))

\* trimmed.startsWith("data: ")
startsWithData(s) == Len(s) >= 2 /\ s[1] = DataTag /\ s[2] = SP

\* trimmed.slice(6)
slice6(s) == SubSeq(s, 3, Len(s))

Data(type, text, msg) == [type |-> type, text |-> text, message |-> msg]
SyntaxError == Data("<SyntaxError>", <<>>, None)

\* JSON.parse, which tolerates white space around the value; text is the
\* field content of a content / tool_result event and the field tool of a
\* tool_call event
JSONparse(jsonStr) ==
    LET s    == trim(jsonStr)
        body == SubSeq(s, 2, Len(s) - 1)
    IN  IF s = <<EndEvent>> THEN Data("end", <<>>, None)
        ELSE IF s = <<PingEvent>> THEN Data("ping", <<>>, None)
        ELSE IF s = <<ErrorEventBoom>> THEN Data("error", <<>>, "boom")
        ELSE IF /\ Len(s) >= 2
                /\ s[1] \in {OpenContent, OpenToolCall, OpenToolResult}
                /\ Last(s) = CloseStr
                /\ \A k \in 1..Len(body) : body[k] \notin Structural
        THEN Data(CASE s[1] = OpenContent -> "content"
                    [] s[1] = OpenToolCall -> "tool_call"
                    [] s[1] = OpenToolResult -> "tool_result", body, None)
        ELSE SyntaxError

\* the chunk of a parsed event, none for an event of any other type
EventChunks(data) ==
    CASE data.type = "content" -> <<ContentChunk(data.text)>>
      [] data.type = "tool_call" ->
            <<ContentChunk(<<NL, "[Using tool: ">> \o data.text \o <<"]", NL>>)>>
      [] data.type = "tool_result" -> <<ContentChunk(<<NL>> \o data.text \o <<NL>>)>>
      [] data.type = "end" -> <<DoneChunk>>
      [] data.type = "error" -> <<ErrorChunk(data.message)>>
      [] OTHER -> <<>>

\* faulty variant: a payload that does not parse is reported as an Error chunk
LineChunksFailLoud(line) ==
    LET trimmed == trim(line)
    IN  IF ~startsWithData(trimmed) THEN <<>>
        ELSE LET data == JSONparse(slice6(trimmed))
             IN  IF data = SyntaxError THEN <<ErrorChunk("parse error")>>
                 ELSE EventChunks(data)

\* faulty variant: tool events are passed on without the line breaks around them
LineChunksBare(line) ==
    LET trimmed == trim(line)
    IN  IF ~startsWithData(trimmed) THEN <<>>
        ELSE LET data == JSONparse(slice6(trimmed))
             IN  IF data = SyntaxError THEN <<>>
                 ELSE IF data.type = "tool_call"
                      THEN <<ContentChunk(<<"[Using tool: ">> \o data.text \o <<"]">>)>>
                      ELSE IF data.type = "tool_result"
                           THEN <<ContentChunk(data.text)>>
                           ELSE EventChunks(data)

\* faulty variant: an event of an unknown type is passed on as content
LineChunksAnyType(line) ==
    LET trimmed == trim(line)
    IN  IF ~startsWithData(trimmed) THEN <<>>
        ELSE LET data == JSONparse(slice6(trimmed))
             IN  IF data = SyntaxError THEN <<>>
                 ELSE IF EventChunks(data) = <<>>
                      THEN <<ContentChunk(<<data.type>>)>>
                      ELSE EventChunks(data)

\* the body of the for loop: the chunks one line hands to onChunk.  A payload
\* that does not parse throws inside the try and is only logged.
LineChunks(line) ==
    LET trimmed == trim(line)
    IN  IF ~startsWithData(trimmed) THEN <<>>
        ELSE LET data == JSONparse(slice6(trimmed))
             IN  IF data = SyntaxError THEN <<>> ELSE EventChunks(data)

RECURSIVE ChunksOf(_)
\* the chunks of the visited lines, in order
ChunksOf(visited) ==
    IF visited = <<>> THEN <<>> ELSE Head(visited).chunks \o ChunksOf(Tail(visited))

\* faulty variant: the text after the last line break is not kept
ReadStepDropRest(rd, value) ==
    LET dec      == TextDecoderDecode(rd.held, value)
        lines    == split(rd.buffer \o dec.text)
        visited  == [k \in 1..(Len(lines) - 1) |->
                        [line |-> lines[k], chunks |-> LineChunks(lines[k])]]
    IN  [held |-> dec.held, buffer |-> <<>>,
         emitted |-> rd.emitted \o ChunksOf(visited),
         processed |-> rd.processed \o visited]

\* one round of the while loop on the bytes value: decode, split, keep the last
\* piece in buffer, visit every complete line
ReadStep(rd, value) ==
    LET dec      == TextDecoderDecode(rd.held, value)
        lines    == split(rd.buffer \o dec.text)
        visited  == [k \in 1..(Len(lines) - 1) |->
                        [line |-> lines[k], chunks |-> LineChunks(lines[k])]]
    IN  [held |-> dec.held, buffer |-> Last(lines),
         emitted |-> rd.emitted \o ChunksOf(visited),
         processed |-> rd.processed \o visited]

\* the reader before the first read: let buffer = "", a fresh TextDecoder
FreshReader == [held |-> <<>>, buffer |-> <<>>, emitted |-> <<>>, processed |-> <<>>]

\* the lines a response body is made of
LineTemplates ==
    {<<DataTag, SP, OpenContent, Lead, Cont, CloseStr>>,
     <<DataTag, SP, OpenToolCall, "search", CloseStr>>,
     <<DataTag, SP, OpenToolResult, "3 rows", CloseStr>>,
     <<DataTag, SP, ErrorEventBoom, CR>>,
     <<SP, DataTag, SP, EndEvent>>,
     <<DataTag, SP, PingEvent>>,
     <<DataTag, SP, OpenContent, "Hi", Lead>>,
     <<DataTag, EndEvent>>}

\* what may follow the last line break: nothing, a whole event, half an event
Tails ==
    {<<>>,
     <<DataTag, SP, OpenContent, Lead, Cont, CloseStr>>,
     <<DataTag, SP, OpenContent, Lead>>}

RECURSIVE Bodies(_)
\* the response bodies of n terminated lines
Bodies(n) ==
    IF n = 0 THEN {<<>>}
    ELSE {l \o <<NL>> \o w : l \in LineTemplates, w \in Bodies(n - 1)}

\* up to MaxLines terminated lines, then a last piece without line break
Wires == {w \o t : w \in UNION {Bodies(n) : n \in 0..MaxLines}, t \in Tails}

InitDecoder ==
    /\ currentSessionId = None
    /\ messages = <<>>
    /\ isLoading = FALSE
    /\ error = None
    /\ activeStreamRef = 0
    /\ handles = <<>>
    /\ requests = <<>>
    /\ nCalls = 0
    /\ wire \in Wires
    /\ pos = 0
    /\ held = <<>>
    /\ buffer = <<>>
    /\ emitted = <<>>
    /\ processed = <<>>
    /\ readerPc = "reading"
    /\ splitLine = FALSE
    /\ splitChar = FALSE
    /\ UploadIdle
    /\ InputIdle

\* reader.read() resolves with the next n bytes: one round of the while loop
read(n) ==
    /\ readerPc = "reading"
    /\ n \in 1..(Len(wire) - pos)
    /\ LET value == SubSeq(wire, pos + 1, pos + n)
           rd    == ReadStep([held |-> held, buffer |-> buffer, emitted |-> emitted,
                              processed |-> processed], value)
       IN  /\ held' = rd.held
           /\ buffer' = rd.buffer
           /\ emitted' = rd.emitted
           /\ processed' = rd.processed
           /\ splitLine' = (splitLine \/ ((buffer # <<>> \/ held # <<>>)
                                            /\ Len(rd.processed) > Len(processed)))
           /\ splitChar' = (splitChar \/ (held # <<>> /\ value[1] = Cont))
    /\ pos' = pos + n
    /\ UNCHANGED <<wire, readerPc, hookVars, uploadVars, inputVars>>

\* faulty variant: at the end of the input the pending text is visited as a line
readDoneFlush ==
    /\ readerPc = "reading"
    /\ pos = Len(wire)
    /\ emitted' = Append(emitted \o LineChunks(buffer), DoneChunk)
    /\ processed' = IF buffer = <<>> THEN processed
                    ELSE Append(processed, [line |-> buffer, chunks |-> LineChunks(buffer)])
    /\ readerPc' = "done"
    /\ UNCHANGED <<wire, pos, held, buffer, splitLine, splitChar, hookVars, uploadVars, inputVars>>

\* reader.read() resolves with done: onChunk({ type: "done" }), break
readDone ==
    /\ readerPc = "reading"
    /\ pos = Len(wire)
    /\ emitted' = Append(emitted, DoneChunk)
    /\ readerPc' = "done"
    /\ UNCHANGED <<wire, pos, held, buffer, processed, splitLine, splitChar, hookVars, uploadVars, inputVars>>

\* reader.read() rejects: the exception leaves the loop, finally releases the lock
readRejects ==
    /\ readerPc = "reading"
    /\ readerPc' = "failed"
    /\ UNCHANGED <<wire, pos, held, buffer, emitted, processed, splitLine, splitChar,
                   hookVars, uploadVars, inputVars>>

NextDecoder ==
    \/ \E n \in 1..Len(wire) : read(n)
    \/ readDone
    \/ readRejects

SpecDecoder == InitDecoder /\ [][NextDecoder]_vars

\* ------------------------------------------------ MessageInput.handleSend
\* what the user may type: only white space, or a text with blanks around it
Typed == {<<SP>>, <<SP, "hello", SP>>}

\* onChange of the textarea: setMessage(e.target.value)
setMessage(m) ==
    /\ message # m
    /\ message' = m
    /\ UNCHANGED <<selectedFile, awaiting, nSends>>

handleFileSelect(file) ==
    /\ selectedFile # file
    /\ selectedFile' = file
    /\ UNCHANGED <<message, awaiting, nSends>>

removeFile ==
    /\ selectedFile # None
    /\ selectedFile' = None
    /\ UNCHANGED <<message, awaiting, nSends>>

\* faulty variant: the message is sent without waiting for the upload
handleSendNoWait ==
    /\ nSends < MaxSends
    /\ nSends' = nSends + 1
    /\ IF (trim(message) = <<>> /\ selectedFile = None) \/ isLoading
       THEN UNCHANGED <<hookVars, uploadVars, message, selectedFile, awaiting>>
       ELSE IF trim(message) # <<>>
            THEN /\ sendMessageWithAutoSession(trim(message))
                 /\ message' = <<>>
                 /\ UNCHANGED <<uploadVars, selectedFile, awaiting>>
            ELSE /\ uploadFile(selectedFile)
                 /\ awaiting' = Append(awaiting, message)
                 /\ UNCHANGED <<message, selectedFile>>

\* MessageInput.handleSend up to await onFileUpload(selectedFile), or to its
\* end when no file is selected; disabled is ChatPage's isLoading and
\* onFileUpload is ChatPage.handleFileUpload, which calls useChat.uploadFile
handleSend ==
    /\ nSends < MaxSends
    /\ nSends' = nSends + 1
    /\ IF (trim(message) = <<>> /\ selectedFile = None) \/ isLoading
       THEN UNCHANGED <<hookVars, uploadVars, message, selectedFile, awaiting>>
       ELSE IF selectedFile # None
            THEN /\ uploadFile(selectedFile)
                 /\ awaiting' = Append(awaiting, message)
                 /\ UNCHANGED <<message, selectedFile>>
            ELSE /\ sendMessageWithAutoSession(trim(message))
                 /\ message' = <<>>
                 /\ UNCHANGED <<uploadVars, selectedFile, awaiting>>

\* the upload of run i resolved: the rest of uploadFile's try block, then the
\* rest of handleSend with the message of the render it was called in
handleSendResumes(i) ==
    /\ uploads' = Remove(uploads, i)
    /\ uploadProgress' = Progress(uploads[i], "success")
    /\ timers' = timers + 1
    /\ awaiting' = Remove(awaiting, i)
    /\ selectedFile' = None
    /\ IF trim(awaiting[i]) # <<>>
       THEN /\ sendMessageWithAutoSession(trim(awaiting[i]))
            /\ message' = <<>>
       ELSE UNCHANGED <<hookVars, message>>
    /\ UNCHANGED <<nUploads, nSends>>

\* the upload of run i rejected: uploadFile's catch block, handleFileUpload
\* rethrows, handleSend logs and returns
handleSendGivesUp(i, msg) ==
    /\ uploadFileFail(i, msg)
    /\ awaiting' = Remove(awaiting, i)
    /\ UNCHANGED <<message, selectedFile, nSends>>

\* The input box of a loaded session: the user types, picks a file and sends;
\* the streams of the messages sent are answered, closed or broken.
NextInput ==
    \/ \E m \in Typed : setMessage(m) /\ UNCHANGED <<hookVars, readerVars, uploadVars>>
    \/ handleFileSelect("a.csv") /\ UNCHANGED <<hookVars, readerVars, uploadVars>>
    \/ removeFile /\ UNCHANGED <<hookVars, readerVars, uploadVars>>
    \/ handleSend /\ UNCHANGED readerVars
    \/ \E i \in UploadIds : handleSendResumes(i) /\ UNCHANGED readerVars
    \/ \E i \in UploadIds : handleSendGivesUp(i, UploadErrorText) /\ UNCHANGED readerVars
    \/ uploadTimer /\ UNCHANGED <<readerVars, inputVars>>
    \/ \E h \in HandleIds : FetchOk(h) /\ UNCHANGED sideVars
    \/ \E h \in HandleIds : ReaderDone(h) /\ UNCHANGED sideVars
    \/ \E h \in HandleIds : StreamFail(h, "API Error 500") /\ UNCHANGED sideVars

SpecInput == InitTurn /\ [][NextInput]_vars

\* ---------------------------------------------------- vocabulary of claims
\* this step hands a chunk to the onChunk callback of stream h
Delivers(h) == Len(handles'[h].log) > Len(handles[h].log)

\* this step runs the catch / finally of stream h (connection closed or failed)
Finishes(h) ==
    handles[h].pc \in {"fetch", "reading"} /\ handles'[h].pc \in {"closed", "failed"}

StreamEvent(h) == Delivers(h) \/ Finishes(h)

HasChunk(h, type) == \E k \in 1..Len(handles[h].log) : handles[h].log[k].type = type

\* the stream of h is in flight and its turn has neither completed nor failed
ActiveStream(h) ==
    /\ activeStreamRef = h
    /\ ~handles[h].aborted
    /\ handles[h].pc \in {"fetch", "reading"}
    /\ ~HasChunk(h, "done")
    /\ ~HasChunk(h, "error")

\* chunks were handed to onChunk of h after h was aborted
StaleDelivery(h) == handles[h].aborted /\ Len(handles[h].log) > handles[h].abortedAt

\* ------------------------------------------------------------------ claims
\* C1: once sendMessageStream has been called again before the first stream
\* finished, no chunk delivered against the first handle changes the transcript.
CancellationSafety ==
    [][\A h \in HandleIds :
          (handles[h].abortedBy = "begin" /\ Delivers(h)) => messages' = messages]_vars

\* a chunk has been discarded on a handle pre-empted by a second stream that
\* has itself applied a chunk
CancellationWitness ==
    \E h \in HandleIds :
        /\ handles[h].abortedBy = "begin"
        /\ StaleDelivery(h)
        /\ handles[h].log[Len(handles[h].log)].type = "content"
        /\ activeStreamRef \notin {0, h}
        /\ handles[activeStreamRef].log # <<>>
        /\ Len(messages) >= 4

\* C2: at most one StreamHandle ever created has aborted = false.
AtMostOneLiveHandle ==
    Cardinality({h \in HandleIds : ~handles[h].aborted}) <= 1

\* C3: a chunk callback, the transport-failure handler and the completion
\* handler of a stream change transcript, loading flag or error only if the
\* stream's handle is the current handle and is not aborted.
AdmissionCheck ==
    [][\A h \in HandleIds :
          (StreamEvent(h) /\ ~(activeStreamRef = h /\ ~handles[h].aborted))
              => UNCHANGED <<messages, isLoading, error>>]_vars

\* C4: a successful loadSession run while a stream is in flight installs exactly
\* the stored history of the requested session, and no chunk, close or failure
\* of the stream it aborted changes the transcript, before or after the fetch.
LoadReplacesTranscript ==
    [][\A h \in HandleIds :
          /\ (handles[h].abortedBy = "load" /\ handles'[h].abortedBy = "loaded")
                => \E i \in RequestIds :
                      /\ requests[i].kind = "load" /\ requests[i].victim = h
                      /\ messages' = StoredHistory(requests[i].sessionId)
                      /\ currentSessionId' = requests[i].sessionId
          /\ (handles[h].abortedBy \in {"load", "loaded"} /\ StreamEvent(h))
                => messages' = messages]_vars

\* a stream that had applied a chunk was aborted by a loadSession that succeeded,
\* a later chunk of it was discarded, and the transcript is the loaded history
LoadWitness ==
    \E h \in HandleIds :
        /\ handles[h].abortedBy = "loaded"
        /\ handles[h].abortedAt >= 1
        /\ StaleDelivery(h)
        /\ requests = <<>>
        /\ currentSessionId # None
        /\ messages = StoredHistory(currentSessionId)
        /\ messages # <<>>

\* C5: while a stream is active the transcript is non-empty and its trailing
\* message is an ai or tool message, never the human message.
TrailingWhileActive ==
    \A h \in HandleIds :
        ActiveStream(h) =>
            /\ messages # <<>>
            /\ Last(messages).sender \in {"ai", "tool"}

\* C9: a second Done for the same handle changes neither transcript, loading
\* flag, error nor the current handle.
DoneIdempotent ==
    [][\A h \in HandleIds :
          (/\ HasChunk(h, "done")
           /\ Delivers(h)
           /\ handles'[h].log[Len(handles'[h].log)].type = "done")
              => UNCHANGED <<messages, isLoading, error, activeStreamRef>>]_vars

\* C10: once a turn is Completed (Done) or Failed (Error chunk), no later chunk
\* of the same stream changes transcript, loading flag or error.
TerminalNoMutation ==
    [][\A h \in HandleIds :
          ((HasChunk(h, "done") \/ HasChunk(h, "error")) /\ Delivers(h))
              => UNCHANGED <<messages, isLoading, error>>]_vars

\* ------------------------------------------- claims about a single turn
RECURSIVE Flatten(_)
\* the text of a sequence of content chunks, in order
Flatten(chunks) ==
    IF chunks = <<>> THEN <<>> ELSE Head(chunks).content \o Flatten(Tail(chunks))

\* m is the leftmost piece of text that opens with {'path': and runs, without a
\* line break, up to the first } after it
IsPayloadOf(m, text) ==
    \E i \in 1..Len(text) : \E j \in (i + 1)..Len(text) :
        /\ m = SubSeq(text, i, j)
        /\ text[i] = POpen /\ text[j] = PClose
        /\ \A k \in (i + 1)..(j - 1) : text[k] \notin {PClose, NL}
        /\ \A a \in 1..(i - 1) :
              text[a] = POpen =>
                  \A b \in (a + 1)..Len(text) :
                      text[b] = PClose => \E k \in (a + 1)..(b - 1) : text[k] = NL

PayloadsOf(text) ==
    {m \in {SubSeq(text, i, j) : i \in 1..Len(text), j \in 1..Len(text)} :
        IsPayloadOf(m, text)}

\* the last chunk handed to onChunk of h by this step
Delivered(h) == handles'[h].log[Len(handles'[h].log)]

\* the log is content chunks without tool payload, then the end of the stream
PlainThenDone(log) ==
    \E n \in 0..(Len(log) - 1) :
        /\ \A k \in 1..n : log[k].type = "content" /\ PayloadsOf(log[k].content) = {}
        /\ \A k \in (n + 1)..Len(log) : log[k].type = "done"

TurnStart(h) ==
    StoredHistory(handles[h].sessionId) \o <<Msg("human", handles[h].userInput)>>

\* C6: a turn whose stream delivers content chunks c1..cn without tool payload
\* and then ends, never aborted, leaves T ++ [human:t, ai:c1+...+cn], loading
\* false and no error.
TurnResult ==
    \A h \in HandleIds :
        (/\ ~handles[h].aborted
         /\ handles[h].pc \in {"reading", "closed"}
         /\ PlainThenDone(handles[h].log))
            => /\ messages = TurnStart(h) \o
                     <<Msg("ai", Flatten(SelectSeq(handles[h].log,
                                          LAMBDA c : c.type = "content")))>>
               /\ isLoading = FALSE
               /\ error = None

\* "hello" answered by "Hi", " there", end
TurnResultWitness ==
    /\ Len(handles) = 1
    /\ handles[1].userInput = <<"hello">>
    /\ handles[1].log = <<ContentChunk(<<"Hi">>), ContentChunk(<<" there">>), DoneChunk>>
    /\ messages = <<Msg("human", <<"hello">>), Msg("ai", <<"Hi", " there">>)>>
    /\ ~isLoading

\* C7: a content chunk that matches the tool-output pattern, applied while the
\* trailing message is ai(p), appends tool(matched payload) and ai("") and
\* changes nothing else.
ToolSplit ==
    [][\A h \in HandleIds :
          (/\ Delivers(h)
           /\ ~handles[h].aborted
           /\ Delivered(h).type = "content"
           /\ PayloadsOf(Delivered(h).content) # {}
           /\ messages # <<>>
           /\ Last(messages).sender = "ai")
              => \E m \in PayloadsOf(Delivered(h).content) :
                    messages' = messages \o <<Msg("tool", m), Msg("ai", <<>>)>>]_vars

\* a payload inside surrounding text has been split off after some prose
ToolSplitWitness ==
    /\ Len(handles) = 1
    /\ Len(handles[1].log) = 2
    /\ handles[1].log[2].content = <<"see ", POpen, " 'a.csv'", PClose, " and ", PClose>>
    /\ Len(messages) >= 4
    /\ messages[Len(messages) - 2] = Msg("ai", <<"Running...">>)
    /\ messages[Len(messages) - 1] = Msg("tool", <<POpen, " 'a.csv'", PClose>>)
    /\ Last(messages) = Msg("ai", <<>>)

RunReportLog ==
    <<ContentChunk(<<"Running...">>), ContentChunk(Payload),
      ContentChunk(<<" finished">>), DoneChunk>>

\* C8: after a tool split, text without payload goes to the new trailing ai
\* message, and "run report" answered by "Running...", the payload, " finished",
\* end yields human, ai "Running...", tool payload, ai " finished".
AfterToolSplit ==
    /\ [](\A h \in HandleIds :
            (/\ handles[h].userInput = <<"run report">>
             /\ ~handles[h].aborted
             /\ handles[h].pc \in {"reading", "closed"}
             /\ handles[h].log = RunReportLog)
                => messages = TurnStart(h) \o
                      <<Msg("ai", <<"Running...">>), Msg("tool", Payload),
                        Msg("ai", <<" finished">>)>>)
    /\ [][\A h \in HandleIds :
            (/\ Delivers(h)
             /\ ~handles[h].aborted
             /\ Delivered(h).type = "content"
             /\ Delivered(h).content # <<>>
             /\ PayloadsOf(Delivered(h).content) = {}
             /\ Len(messages) >= 3
             /\ Last(messages).sender = "ai"
             /\ messages[Len(messages) - 1].sender = "tool")
                => messages' = [messages EXCEPT
                                   ![Len(messages)].content = @ \o Delivered(h).content]]_vars

AfterToolSplitWitness ==
    /\ Len(handles) = 1
    /\ handles[1].log = RunReportLog
    /\ currentSessionId = "s1"
    /\ messages = <<Msg("human", <<"run report">>), Msg("ai", <<"Running...">>),
                    Msg("tool", Payload), Msg("ai", <<" finished">>)>>

\* ------------------------------------------------ claims about failures
\* the last chunk handed to onChunk of h by this step is an Error chunk and h is
\* the current handle, not aborted
ErrorDelivered(h) ==
    /\ Delivers(h)
    /\ Delivered(h).type = "error"
    /\ activeStreamRef = h
    /\ ~handles[h].aborted

\* C11 as stated: an Error(message) chunk delivered on the current, non-aborted
\* handle sets the error to that message and the loading flag to false and
\* leaves the transcript exactly as it was.
ErrorChunkSetsMessage ==
    [][\A h \in HandleIds :
          ErrorDelivered(h)
              => /\ error' = Delivered(h).error
                 /\ isLoading' = FALSE
                 /\ messages' = messages]_vars

\* C11 amended: an Error(message) chunk delivered on the current, non-aborted
\* handle sets the error to that message, or to "Stream error occurred" when
\* the message is empty or missing, sets the loading flag to false and leaves
\* the transcript exactly as it was.
ErrorChunkRetains ==
    [][\A h \in HandleIds :
          ErrorDelivered(h)
              => /\ error' = IF Delivered(h).error = ""
                             THEN "Stream error occurred" ELSE Delivered(h).error
                 /\ isLoading' = FALSE
                 /\ messages' = messages]_vars

\* an Error chunk without message arrived after a tool split: the human, ai,
\* tool and trailing ai messages are all still there
ErrorChunkWitness ==
    /\ Len(handles) = 1
    /\ handles[1].log = <<ContentChunk(<<"Running...">>), ContentChunk(Payload),
                          ErrorChunk("")>>
    /\ handles[1].pc = "reading"
    /\ Len(messages) >= 4
    /\ SubSeq(messages, Len(messages) - 3, Len(messages)) =
          <<Msg("human", handles[1].userInput), Msg("ai", <<"Running...">>),
            Msg("tool", Payload), Msg("ai", <<>>)>>
    /\ error = "Stream error occurred"
    /\ ~isLoading

\* this step runs the catch block of stream h
Fails(h) == Finishes(h) /\ handles'[h].pc = "failed"

\* C12: a transport failure before any frame on a non-aborted stream leaves the
\* transcript as it was before the turn started, the error set and the loading
\* flag false.
TransportRollback ==
    [][\A h \in HandleIds :
          (Fails(h) /\ ~handles[h].aborted /\ handles[h].log = <<>>)
              => /\ messages' = StoredHistory(handles[h].sessionId)
                 /\ error' # None
                 /\ isLoading' = FALSE]_vars

\* the request of a turn on the session with a stored history was rejected
TransportRollbackWitness ==
    /\ Len(handles) = 1
    /\ handles[1].pc = "failed"
    /\ handles[1].log = <<>>
    /\ handles[1].sessionId = "s2"
    /\ messages = StoredHistory("s2")
    /\ error = "API Error 500"
    /\ ~isLoading

\* C13: the rollback on a transport failure removes the two most recent
\* messages only if they are the human/ai pair of the failed turn; in every
\* other state it removes no message.
RollbackOnlyPair ==
    [][\A h \in HandleIds :
          Fails(h)
              => \/ messages' = messages
                 \/ /\ Len(messages) >= 2
                    /\ messages[Len(messages) - 1] = Msg("human", handles[h].userInput)
                    /\ Last(messages).sender = "ai"
                    /\ messages' = SliceOffTwo(messages)]_vars

\* C20: when the connection closes without an end event on the current,
\* non-aborted stream, the loading flag becomes false, no error is set, the
\* transcript is kept as it is and no stream is current any more.
CloseCompletesTurn ==
    [][\A h \in HandleIds :
          (/\ Finishes(h)
           /\ handles'[h].pc = "closed"
           /\ activeStreamRef = h
           /\ ~handles[h].aborted
           /\ ~HasChunk(h, "done"))
              => /\ isLoading' = FALSE
                 /\ error' = error
                 /\ messages' = messages
                 /\ activeStreamRef' = 0]_vars

\* the connection closed after "Hi" was streamed and no end event came
CloseWitness ==
    \E h \in HandleIds :
        /\ handles[h].pc = "closed"
        /\ ~handles[h].aborted
        /\ handles[h].log = <<ContentChunk(<<"Hi">>), DoneChunk>>
        /\ messages # <<>>
        /\ Last(messages) = Msg("ai", <<"Hi">>)
        /\ ~isLoading
        /\ error = None
        /\ activeStreamRef = 0

\* ------------------------------------------- claims about the decoder
\* line breaks among the first n bytes of the response body
LineBreaks(n) == Cardinality({i \in 1..n : wire[i] = NL})

\* the chunks handed to onChunk before the end of the input
EmittedBeforeEnd ==
    IF readerPc = "done" THEN SubSeq(emitted, 1, Len(emitted) - 1) ELSE emitted

\* C14: however the bytes read so far were cut into chunks, the decoder has
\* visited exactly the terminated lines among them, in order, and stands where
\* it stands after reading the same bytes as one chunk: same lines, same chunks
\* handed to onChunk, same pending text.
FragmentationInvariance ==
    readerPc \in {"reading", "done"} =>
        LET one == ReadStep(FreshReader, SubSeq(wire, 1, pos))
        IN  /\ Len(processed) = LineBreaks(pos)
            /\ processed = one.processed
            /\ EmittedBeforeEnd = one.emitted
            /\ buffer = one.buffer
            /\ held = one.held

\* a body of two event lines was read to its end in pieces that cut a line
FragmentationWitness ==
    /\ readerPc = "done"
    /\ splitLine
    /\ Len(processed) = 2
    /\ \A k \in 1..Len(processed) : processed[k].chunks # <<>>
    /\ Len(emitted) = 3

RECURSIVE Joined(_)
\* the visited lines with their line breaks
Joined(visited) ==
    IF visited = <<>> THEN <<>>
    ELSE Head(visited).line \o <<NL>> \o Joined(Tail(visited))

\* C15: the text decoded so far, with a character cut at a chunk boundary, is
\* the text the same bytes decode to in one chunk.
SplitCharacter ==
    readerPc \in {"reading", "done"} =>
        LET whole == TextDecoderDecode(<<>>, SubSeq(wire, 1, pos))
        IN  /\ Joined(processed) \o buffer = whole.text
            /\ held = whole.held

\* the two bytes of U+00E9 came in two reads and the event carrying it was
\* handed on with the character intact
SplitCharacterWitness ==
    /\ splitChar
    /\ \E k \in 1..Len(processed) :
          /\ processed[k].line = <<DataTag, SP, OpenContent, EAcute, CloseStr>>
          /\ processed[k].chunks = <<ContentChunk(<<EAcute>>)>>

\* a data line whose payload is an unterminated string
MalformedLine == <<DataTag, SP, OpenContent, "Hi", Replacement>>

\* the well-formed event lines of the response bodies, as decoded
IsEventLine(line) ==
    line \in {<<DataTag, SP, OpenContent, EAcute, CloseStr>>,
              <<DataTag, SP, OpenToolCall, "search", CloseStr>>,
              <<DataTag, SP, OpenToolResult, "3 rows", CloseStr>>,
              <<DataTag, SP, ErrorEventBoom, CR>>,
              <<SP, DataTag, SP, EndEvent>>}

\* C16: a data line whose payload fails to parse yields no chunk and does not
\* end the stream: every terminated line is still visited and every well-formed
\* event line after it yields its chunk, in order.
MalformedSkipped ==
    readerPc \in {"reading", "done"} =>
        /\ Len(processed) = LineBreaks(pos)
        /\ EmittedBeforeEnd = ChunksOf(processed)
        /\ \A k \in 1..Len(processed) :
              processed[k].line = MalformedLine
                  => /\ processed[k].chunks = <<>>
                     /\ \A j \in (k + 1)..Len(processed) :
                           IsEventLine(processed[j].line) => Len(processed[j].chunks) = 1

\* a malformed data line was skipped and the event after it handed on
MalformedWitness ==
    /\ Len(processed) = 2
    /\ processed[1].line = MalformedLine
    /\ processed[2].line = <<DataTag, SP, OpenToolResult, "3 rows", CloseStr>>
    /\ Len(emitted) = 1
    /\ emitted[1].type = "content"

\* C17 as stated: a tool_call event with field tool yields exactly
\* Content("[Using tool: " + tool + "]") and a tool_result event with field
\* content yields exactly Content(content).
ToolEventsVerbatim ==
    \A k \in 1..Len(processed) :
        /\ processed[k].line = <<DataTag, SP, OpenToolCall, "search", CloseStr>>
              => processed[k].chunks = <<ContentChunk(<<"[Using tool: ", "search", "]">>)>>
        /\ processed[k].line = <<DataTag, SP, OpenToolResult, "3 rows", CloseStr>>
              => processed[k].chunks = <<ContentChunk(<<"3 rows">>)>>

\* C17 amended: a tool_call event with field tool yields exactly
\* Content("\n[Using tool: " + tool + "]\n") and a tool_result event with field
\* content yields exactly Content("\n" + content + "\n").
ToolEventsWrapped ==
    \A k \in 1..Len(processed) :
        /\ processed[k].line = <<DataTag, SP, OpenToolCall, "search", CloseStr>>
              => processed[k].chunks =
                    <<ContentChunk(<<NL, "[Using tool: ", "search", "]", NL>>)>>
        /\ processed[k].line = <<DataTag, SP, OpenToolResult, "3 rows", CloseStr>>
              => processed[k].chunks = <<ContentChunk(<<NL, "3 rows", NL>>)>>

\* a tool_call event and then a tool_result event were handed on
ToolEventsWitness ==
    /\ Len(processed) = 2
    /\ processed[1].line = <<DataTag, SP, OpenToolCall, "search", CloseStr>>
    /\ processed[2].line = <<DataTag, SP, OpenToolResult, "3 rows", CloseStr>>
    /\ Len(emitted) = 2
    /\ emitted[1].content # emitted[2].content

\* the payloads whose type is content, tool_call, tool_result, end or error
KnownPayload(p) ==
    p \in {OpenContent, OpenToolCall, OpenToolResult, EndEvent, ErrorEventBoom}

\* C18 as stated: a line yields a chunk only if it begins with the literal
\* prefix "data: " and its payload type is one of content, tool_call,
\* tool_result, end, error.
ChunkOnlyFromDataLine ==
    \A k \in 1..Len(processed) :
        processed[k].chunks # <<>>
            => LET line == processed[k].line
               IN  /\ Len(line) >= 3
                   /\ line[1] = DataTag /\ line[2] = SP
                   /\ KnownPayload(line[3])

\* line begins, after leading white space, with "data: " at position i
DataAt(line, i) ==
    /\ i + 2 <= Len(line)
    /\ \A a \in 1..(i - 1) : line[a] \in WhiteSpace
    /\ line[i] = DataTag /\ line[i + 1] = SP

\* C18 amended: a line yields a chunk only if, once the white space around it
\* is trimmed, it begins with the literal prefix "data: " and its payload type
\* is one of content, tool_call, tool_result, end, error; every other line
\* yields no chunk and no error.
ChunkOnlyFromTrimmedDataLine ==
    \A k \in 1..Len(processed) :
        LET line == processed[k].line
        IN  /\ processed[k].chunks # <<>>
                => \E i \in 1..Len(line) : DataAt(line, i) /\ KnownPayload(line[i + 2])
            /\ (~\E i \in 1..Len(line) : DataAt(line, i) /\ KnownPayload(line[i + 2]))
                => processed[k].chunks = <<>>
            /\ Len(processed[k].chunks) <= 1

\* an event of an unknown type yielded nothing and a data line with a leading
\* blank yielded its chunk
ChunkOnlyWitness ==
    /\ Len(processed) = 2
    /\ processed[1].line = <<DataTag, SP, PingEvent>>
    /\ processed[1].chunks = <<>>
    /\ processed[2].line = <<SP, DataTag, SP, EndEvent>>
    /\ emitted = <<DoneChunk>>

\* C19: at the end of the input the pending text is dropped: only terminated
\* lines have been visited and only their chunks, then the closing done, were
\* handed to onChunk.
PendingDiscarded ==
    readerPc = "done" =>
        /\ Len(processed) = LineBreaks(Len(wire))
        /\ emitted = ChunksOf(processed) \o <<DoneChunk>>

\* the input ended on a whole content event without line break, after an
\* event line that was handed on
PendingDiscardedWitness ==
    /\ readerPc = "done"
    /\ buffer = <<DataTag, SP, OpenContent, EAcute, CloseStr>>
    /\ Len(processed) = 1
    /\ emitted = <<ContentChunk(<<NL, "3 rows", NL>>), DoneChunk>>

\* ----------------------------------------- claims about the controller
\* this step is createNewSession called by sendMessageWithAutoSession
AutoCreateStarts ==
    /\ Len(requests') = Len(requests) + 1
    /\ Last(requests').kind = "create"
    /\ Last(requests').userInput # <<>>

\* this step ends request i of createNewSession made by sendMessageWithAutoSession
AutoCreateEnds(i) ==
    /\ requests[i].kind = "create"
    /\ requests[i].userInput # <<>>
    /\ requests' = Remove(requests, i)

\* C21: with no session, a send only issues create-session; when it returns the
\* human/ai pair is appended and a stream started whose handle carries the
\* created id, which is also the current session id; when it fails no message
\* is appended and no handle is created.
AutoSession ==
    [][/\ AutoCreateStarts => (currentSessionId = None /\ UNCHANGED <<messages, handles>>)
       /\ \A i \in RequestIds :
             AutoCreateEnds(i)
                 => \/ /\ Len(handles') = Len(handles) + 1
                       /\ Last(handles').sessionId = currentSessionId'
                       /\ currentSessionId' \in SessionIds
                       /\ activeStreamRef' = Len(handles')
                       /\ messages' = <<Msg("human", requests[i].userInput),
                                        Msg("ai", <<>>)>>
                    \/ /\ error' # None
                       /\ UNCHANGED <<messages, handles, currentSessionId>>]_vars

\* the first send of a behaviour has created its session and started its stream
AutoSessionWitness ==
    /\ Len(handles) = 1
    /\ handles[1].pc = "fetch"
    /\ handles[1].sessionId = NewSessionId
    /\ currentSessionId = NewSessionId
    /\ activeStreamRef = 1
    /\ requests = <<>>
    /\ messages = <<Msg("human", <<"hello">>), Msg("ai", <<>>)>>

\* C22: clearSession marks the current handle, if any, aborted and clears it,
\* sets the session id to none and the transcript to empty; afterwards no
\* chunk, close or failure of that stream changes the transcript.
ClearSessionAborts ==
    [][/\ clearSession
          => /\ activeStreamRef' = 0
             /\ activeStreamRef # 0 => handles'[activeStreamRef].aborted
             /\ currentSessionId' = None
             /\ messages' = <<>>
       /\ \A h \in HandleIds :
             (handles[h].abortedBy = "clear" /\ StreamEvent(h)) => messages' = messages]_vars

\* a stream that had applied a chunk was cleared away and a later chunk of it
\* was discarded
ClearSessionWitness ==
    \E h \in HandleIds :
        /\ handles[h].abortedBy = "clear"
        /\ handles[h].abortedAt >= 1
        /\ StaleDelivery(h)
        /\ handles[h].log[Len(handles[h].log)].type = "content"
        /\ currentSessionId = None
        /\ messages = <<>>

\* C23: once the error is set it stays set until clearError; no other
\* operation clears it.
ErrorNeverAutoClears ==
    [][(error # None /\ error' = None)
          => UNCHANGED <<currentSessionId, messages, isLoading, activeStreamRef,
                         handles, requests, nCalls>>]_vars

\* C24: an Error chunk or a transport failure on an aborted handle changes
\* neither the error, the loading flag nor the transcript.
StaleFailureSilent ==
    [][\A h \in HandleIds :
          (/\ handles[h].aborted
           /\ \/ Fails(h)
              \/ Delivers(h) /\ Delivered(h).type = "error")
              => UNCHANGED <<error, isLoading, messages>>]_vars

\* an aborted stream got an Error chunk and then failed, while the turn that
\* pre-empted it still shows both pairs, is loading and has no error
StaleFailureWitness ==
    \E h \in HandleIds :
        /\ handles[h].aborted
        /\ handles[h].pc = "failed"
        /\ StaleDelivery(h)
        /\ handles[h].log[Len(handles[h].log)].type = "error"
        /\ error = None
        /\ isLoading
        /\ Len(messages) = 4

\* C25: a content chunk on the current handle while the trailing message is
\* missing or not ai leaves the transcript unchanged and is reported as an error.
DroppedChunkReported ==
    [][\A h \in HandleIds :
          (/\ Delivers(h)
           /\ Delivered(h).type = "content"
           /\ Delivered(h).content # <<>>
           /\ activeStreamRef = h
           /\ ~handles[h].aborted
           /\ (messages = <<>> \/ Last(messages).sender # "ai"))
              => /\ messages' = messages
                 /\ error' # None]_vars

\* C30: whenever no stream handle is current and no create-session or
\* load-session request is in flight, the loading flag is false.
IdleNotLoading ==
    (activeStreamRef = 0 /\ requests = <<>>) => ~isLoading

\* ------------------------------------- more claims about a single turn
\* a is the beginning of b
IsPrefix(a, b) == Len(a) <= Len(b) /\ SubSeq(b, 1, Len(a)) = a

\* C26: a chunk changes at most the content of the trailing message, by
\* extension, or appends messages: every other message keeps sender, content
\* and position.
ChunkFrame ==
    [][\A h \in HandleIds :
          Delivers(h)
              => /\ Len(messages') >= Len(messages)
                 /\ \A k \in 1..(Len(messages) - 1) : messages'[k] = messages[k]
                 /\ messages # <<>>
                       => /\ messages'[Len(messages)].sender = Last(messages).sender
                          /\ IsPrefix(Last(messages).content,
                                      messages'[Len(messages)].content)]_vars

\* after a stored history: prose, a tool split and prose again, each message
\* where it was put
ChunkFrameWitness ==
    /\ Len(handles) = 1
    /\ Len(handles[1].log) = 3
    /\ Len(messages) = 6
    /\ SubSeq(messages, 1, 2) = StoredHistory("s2")
    /\ SubSeq(messages, 4, 6) =
          <<Msg("ai", <<"Hi">>), Msg("tool", Payload), Msg("ai", <<" there">>)>>

LoadingEnds ==
    /\ isLoading ~> ~isLoading
    /\ [](isLoading => \A h \in HandleIds : ActiveStream(h))

\* the connection was closed in the middle of a payload and the turn is over
LoadingEndsWitness ==
    /\ Len(handles) = 1
    /\ handles[1].pc = "closed"
    /\ ~handles[1].aborted
    /\ handles[1].log = <<ContentChunk(PayloadHead), DoneChunk>>
    /\ ~isLoading
    /\ error = None

\* -------------------------------------------- claims about file upload
\* this step belongs to uploadFile: its call, its completion or its timer
UploadStep == uploadVars' # uploadVars

\* the displayed error was raised by the stream, not by an upload
StreamError == error # None /\ error # UploadErrorText

\* C28: uploadFile, whether it succeeds or fails, leaves the transcript, the
\* session id, the loading flag and the current stream handle unchanged, and
\* leaves an error raised by a stream on display.
UploadIndependent ==
    [][UploadStep
          => /\ UNCHANGED <<messages, currentSessionId, isLoading, activeStreamRef>>
             /\ StreamError => error' = error]_vars

\* ------------------------------------- claims about overlapping operations
\* C31: while a stream is current, not aborted and has received neither Done
\* nor Error nor end-of-input, the loading flag is true.
LoadingWhileStreaming ==
    \A h \in HandleIds : ActiveStream(h) => isLoading

\* C32: a chunk of a stream started for session A never changes the transcript
\* while the current session id is different from A.
SessionIsolation ==
    [][\A h \in HandleIds :
          (Delivers(h) /\ currentSessionId # handles[h].sessionId)
              => messages' = messages]_vars

\* this step completes request i of loadSession successfully after a
\* loadSession called later has already completed
OvertakenLoadEnds(i) ==
    /\ requests[i].kind = "load"
    /\ requests[i].overtakenBy # None
    /\ requests' = Remove(requests, i)
    /\ error' = error
    /\ error # "load failed"

\* C33: when two loadSession calls overlap, after both fetches have completed,
\* in either order, the current session id and the transcript are those of the
\* call made second.
LatestLoadWins ==
    [][\A i \in RequestIds :
          OvertakenLoadEnds(i)
              => /\ currentSessionId' = requests[i].overtakenBy
                 /\ messages' = mappedMessages(StoredHistory(requests[i].overtakenBy))]_vars

\* ------------------------------------------ claims about streamed content
\* the messages the turn of h has added after the human message
TurnReply(h) == SubSeq(messages, Len(TurnStart(h)) + 1, Len(messages))

\* C34: for a stream that is never aborted and has not failed, the contents of
\* the ai and tool messages of its turn, concatenated, are the texts of all
\* content chunks delivered, concatenated.
NoContentLost ==
    \A h \in HandleIds :
        (~handles[h].aborted /\ handles[h].pc # "failed")
            => Flatten(TurnReply(h)) = Flatten(handles[h].log)

\* this step is the success of a createNewSession called by handleNewSession
\* while stream h exists
CreatedWhileStreaming(h) == ~handles[h].createdOver /\ handles'[h].createdOver

\* C35: after createNewSession succeeds the transcript is empty and the session
\* id is the new one, and no chunk, close or failure of a stream started before
\* it changes the transcript, the loading flag or the error.
NewSessionIsolation ==
    [][\A h \in HandleIds :
          /\ CreatedWhileStreaming(h)
                => (messages' = <<>> /\ currentSessionId' = NewSessionId)
          /\ (handles[h].createdOver /\ StreamEvent(h))
                => UNCHANGED <<messages, isLoading, error>>]_vars

\* ---------------------------------------------- claims about loadSession
\* this step is a call of loadSession
LoadStarts ==
    /\ Len(requests') = Len(requests) + 1
    /\ Last(requests').kind = "load"

\* this step ends request i of loadSession without installing its session
LoadFails(i) ==
    /\ requests[i].kind = "load"
    /\ Len(requests') = Len(requests) - 1
    /\ \A j \in 1..Len(requests') :
          requests'[j].sessionId = Remove(requests, i)[j].sessionId
    /\ ~(/\ currentSessionId' = requests[i].sessionId
         /\ messages' = mappedMessages(StoredHistory(requests[i].sessionId)))

\* C36: neither the call of loadSession nor the failure of its fetch changes the
\* current session id or the transcript; the failure sets the error to the
\* failure message and the loading flag to false.
LoadFailureKeepsState ==
    [][/\ LoadStarts => UNCHANGED <<currentSessionId, messages>>
       /\ \A i \in RequestIds :
             LoadFails(i)
                 => /\ UNCHANGED <<currentSessionId, messages>>
                    /\ error' = "load failed"
                    /\ isLoading' = FALSE]_vars

\* the fetch of a loadSession that aborted a stream has failed: the transcript
\* still holds what the stream had written
LoadFailureWitness ==
    /\ Len(handles) = 1
    /\ handles[1].abortedBy = "load"
    /\ handles[1].log = <<ContentChunk(<<"Hi">>)>>
    /\ requests = <<>>
    /\ error = "load failed"
    /\ ~isLoading
    /\ currentSessionId = "s1"
    /\ messages = <<Msg("human", <<"hello">>), Msg("ai", <<"Hi">>)>>

\* ------------------------------------------- claims about upload notices
\* this step is the callback of a self-clear timer
TimerFires == timers' < timers

\* C38: the self-clear timer armed when an upload finishes does not clear the
\* 'uploading' notice of an upload started after it: that notice stays until
\* the second upload itself completes.
TimerClearsOwnNotice ==
    [][(TimerFires /\ uploadProgress.status = "uploading")
          => uploadProgress' = uploadProgress]_vars

\* ------------------------------------------- claims about the input box
\* this step is a call of handleSend
Clicks == nSends' = nSends + 1

\* this step calls onSendMessage
Sends == nCalls' = nCalls + 1

\* this step calls onFileUpload
Uploads == nUploads' = nUploads + 1

\* this step is the answer to an upload
UploadEnds(status) ==
    Len(uploads') = Len(uploads) - 1 /\ uploadProgress'.status = status

\* C37: with a file selected, handleSend passes the message to onSendMessage
\* only once onFileUpload has resolved successfully; when the upload rejects,
\* nothing is sent and the typed message and the selected file are kept; when
\* the input is disabled, or message and file are both empty, nothing is
\* uploaded or sent.
SendAfterUpload ==
    [][/\ (Clicks /\ selectedFile # None) => ~Sends
       /\ (Sends /\ ~Clicks)
             => /\ UploadEnds("success")
                /\ \E i \in UploadIds :
                      /\ awaiting' = Remove(awaiting, i)
                      /\ Last(handles').userInput = trim(awaiting[i])
       /\ UploadEnds("error") => (~Sends /\ UNCHANGED <<message, selectedFile>>)
       /\ (Clicks /\ (isLoading \/ (trim(message) = <<>> /\ selectedFile = None)))
             => (~Sends /\ ~Uploads)]_vars

\* a message typed with a file selected has been sent after its upload
\* succeeded, and the input box is empty again
SendAfterUploadWitness ==
    /\ nSends = 1
    /\ uploads = <<>>
    /\ uploadProgress = Progress("a.csv", "success")
    /\ Len(handles) = 1
    /\ handles[1].userInput = <<"hello">>
    /\ message = <<>>
    /\ selectedFile = None
    /\ error = None

====
